---- MODULE Spec2Model ----
(***************************************************************************)
(* The asynchronous image-analysis pipeline of blog/views.py: the          *)
(* submission view process_image, the background task process_image_task   *)
(* executed by a queue worker, the polling view check_job_status, the      *)
(* record operations analysis_delete / admin change, and the cached        *)
(* helper get_model_prediction.                                            *)
(***************************************************************************)
EXTENDS Naturals, FiniteSets, Sequences, TLC

VARIABLES jobs, nextJob, inflight, records, nextId, cache, resp

vars == <<jobs, nextJob, inflight, records, nextId, cache, resp>>

(* ---- bounds ---------------------------------------------------------- *)
MaxJobs == 1

(* ---- program constants ----------------------------------------------- *)
JobTimeout == 600
CacheTTL == 3600

(* ---- value domains --------------------------------------------------- *)
Images == {"imgA", "imgB"}
NonImages == {"txt"}
Uploads == {"imgA"} \cup NonImages
Queries == {"", "q1"}
None == "None"
NoText == <<>>
DefaultQuery == "default"

(* The job ids a client may ask about and the ids the analysis store may   *)
(* hand out: one more than the submissions of Spec, so that an id never    *)
(* issued exists and one further submission can be made.                   *)
JobIds == 1..(MaxJobs + 1)

(* The ids of the jobs the submissions of Spec create. *)
SpecJobIds == 1..MaxJobs
RecIds == 1..(MaxJobs + 1)

NoRec == [image |-> None]

(* The hash seeds of the interpreter processes that run the cached helper, *)
(* the keys they compute and the absent cache entry.                       *)
HashSeeds == {"seed1", "seed2"}
CacheKeys == HashSeeds \X Images
NoEntry == [value |-> NoText, timeout |-> 0]
NoBody == [image_url |-> None]

(* An InferenceJob as the queue holds it.  file/timeout are the enqueue    *)
(* arguments; pc is the position of process_image_task ("queued" before a  *)
(* worker took it, "finished"/"failed" once the queue recorded the         *)
(* outcome, "expired" once it left the retention window); short, normal,   *)
(* answer and aid are the task's locals; result and exc_info are what the  *)
(* queue stores.  The remaining fields are history: query_text is the text *)
(* read at submission, calls the number of generation calls the task made,   *)
(* asked the query handed to process_query, raised the message of an       *)
(* exception raised in the task, timedOut whether the job exceeded its     *)
(* timeout, created the number of AnalysisRecords the task created, seen   *)
(* the payload of the first "completed" answer given for the job, repeat   *)
(* whether, when a worker took the job, another job of the same content    *)
(* had already finished with an analysis.                                  *)
NewJob(f, q) ==
    [pc |-> "queued", file |-> f, timeout |-> JobTimeout,
     short |-> NoText, normal |-> NoText, answer |-> NoText, aid |-> 0,
     hung |-> FALSE, result |-> 0, exc_info |-> None,
     query_text |-> q, calls |-> 0, asked |-> None,
     raised |-> None, timedOut |-> FALSE, created |-> 0, seen |-> NoBody,
     repeat |-> FALSE]

NoJob == [NewJob(None, None) EXCEPT !.pc = "absent", !.timeout = 0]
Expired == [NoJob EXCEPT !.pc = "expired"]

(* The stages of process_image_task at which the task is executing inside *)
(* its try block.                                                         *)
TryStages == {"start", "short", "normal", "query", "create", "return"}
CallStages == {"short", "normal", "query"}
RunStages == TryStages \cup {"handler"}

Response(op, j, http, status, error, body) ==
    [op |-> op, job |-> j, http |-> http, status |-> status,
     error |-> error, body |-> body]

NoResp == Response("none", 0, 0, None, None, NoBody)

(* django_rq.get_queue().fetch_job(job_id) returns a job. *)
Known(j) == j \in JobIds /\ jobs[j].pc \notin {"absent", "expired"}

Init ==
    /\ jobs = [j \in JobIds |-> NoJob]
    /\ nextJob = 1
    /\ inflight = 0
    /\ records = [r \in RecIds |-> NoRec]
    /\ nextId = 1
    /\ cache = [k \in CacheKeys |-> NoEntry]
    /\ resp = NoResp

(* ---- process_image ---------------------------------------------------- *)

(* resp is the response of the step that led to the state: a step that is  *)
(* no request handler returning leaves none.                               *)
Silent == resp' = NoResp

(* 'image' not in request.FILES: 400, nothing enqueued. *)
ProcessImageNoFile ==
    /\ resp' = Response("submit", 0, 400, None, "No image file provided", NoBody)
    /\ UNCHANGED <<jobs, nextJob, inflight, records, nextId, cache>>

(* process_image run in-line: the task executed before the view returns. *)
EnqueuedInline(f, q) ==
    [NewJob(f, q) EXCEPT !.pc = "finished", !.calls = 3, !.asked = DefaultQuery]

(* queue.enqueue(process_image_task, image_file, job_timeout=600): what    *)
(* the queue holds for the new job.  query_text was read from the request  *)
(* and is not among the arguments of enqueue.                              *)
Enqueued(f, q) == NewJob(f, q)

(* process_image up to and including queue.enqueue: request.FILES holds    *)
(* 'image' (any uploaded file f), the job is on the queue from here on.    *)
EnqueueUpTo(limit, f, q) ==
    /\ nextJob <= limit
    /\ inflight = 0
    /\ jobs' = [jobs EXCEPT ![nextJob] = Enqueued(f, q)]
    /\ nextJob' = nextJob + 1
    /\ inflight' = nextJob
    /\ Silent
    /\ UNCHANGED <<records, nextId, cache>>

Enqueue(f, q) == EnqueueUpTo(MaxJobs, f, q)

(* The same view serving one submission more. *)
Resubmit(f, q) == EnqueueUpTo(MaxJobs + 1, f, q)

(* return JsonResponse({'job_id': job.id, 'status': 'processing', ...}) *)
Respond ==
    /\ inflight # 0
    /\ resp' = Response("submit", inflight, 200, "processing", None, NoBody)
    /\ inflight' = 0
    /\ UNCHANGED <<jobs, nextJob, records, nextId, cache>>

(* ---- process_image_task, run by a queue worker ------------------------ *)

(* A worker takes the queued job and calls process_image_task(image_file). *)
(* Any number of worker processes may serve the queue.                     *)
Succeeded(j) == Known(j) /\ jobs[j].pc = "finished" /\ jobs[j].result # 0

Dequeue(j) ==
    /\ Known(j)
    /\ jobs[j].pc = "queued"
    /\ jobs' = [jobs EXCEPT ![j] =
                  [@ EXCEPT !.pc = "start",
                            !.repeat = \E i \in JobIds \ {j} :
                                          Succeeded(i) /\ jobs[i].file = jobs[j].file]]
    /\ Silent
    /\ UNCHANGED <<nextJob, inflight, records, nextId, cache>>

(* except Exception as e: entered with the task's locals dropped. *)
Caught(job, msg) ==
    [job EXCEPT !.pc = "handler", !.raised = msg, !.short = NoText,
                !.normal = NoText, !.answer = NoText, !.aid = 0]

(* ModelHandler.get_instance(); Image.open(image_file).convert("RGB").     *)
(* Loading the model may raise; opening content that is no image raises.   *)
Started(job, loaded) ==
    IF ~loaded THEN Caught(job, "ModelUnavailable")
    ELSE IF job.file \notin Images THEN Caught(job, "UnidentifiedImage")
    ELSE [job EXCEPT !.pc = "short"]

Start(j) ==
    /\ Known(j)
    /\ jobs[j].pc = "start"
    /\ \E loaded \in BOOLEAN : jobs' = [jobs EXCEPT ![j] = Started(@, loaded)]
    /\ Silent
    /\ UNCHANGED <<nextJob, inflight, records, nextId, cache>>

(* The text the Model Handle generates: the inference engine is opaque,    *)
(* its output is a value determined by the operation, the image and the    *)
(* query it is given.                                                      *)
Generate(kind, img, query) == <<kind, img, query>>

(* One generation call of the Model Handle made at stage pc of job: it     *)
(* returns a text, raises, or does not return.  process_query is called    *)
(* with the image alone, so it answers its default query.                  *)
AfterCall(job, outcome) ==
    LET called == [job EXCEPT !.calls = @ + 1,
                              !.asked = IF job.pc = "query" THEN DefaultQuery ELSE @]
    IN  CASE outcome = "raise" -> Caught(called, "InferenceError")
          [] outcome = "hang" -> [called EXCEPT !.hung = TRUE]
          [] job.pc = "short" ->
               [called EXCEPT !.short = Generate("short", job.file, None),
                              !.pc = "normal"]
          [] job.pc = "normal" ->
               [called EXCEPT !.normal = Generate("normal", job.file, None),
                              !.pc = "query"]
          [] OTHER ->
               [called EXCEPT !.answer = Generate("query", job.file, DefaultQuery),
                              !.pc = "create"]

ModelCall(j, stage) ==
    /\ Known(j)
    /\ jobs[j].pc = stage
    /\ ~jobs[j].hung
    /\ \E outcome \in {"return", "raise", "hang"} :
         jobs' = [jobs EXCEPT ![j] = AfterCall(@, outcome)]
    /\ Silent
    /\ UNCHANGED <<nextJob, inflight, records, nextId, cache>>

(* short_caption = model_handler.generate_short_caption(image) *)
GenerateShortCaption(j) == ModelCall(j, "short")

(* normal_caption = model_handler.generate_normal_caption(image) *)
GenerateNormalCaption(j) == ModelCall(j, "normal")

(* query_result = model_handler.process_query(image) *)
ProcessQuery(j) == ModelCall(j, "query")

(* analysis = ImageAnalysis.objects.create(image=..., short_caption=...,   *)
(* normal_caption=..., query_result=...): query_text is left at its null   *)
(* default.  job is history: the job whose task created the record.        *)
NewRecord(job, j) ==
    [image |-> job.file, short_caption |-> job.short,
     normal_caption |-> job.normal, query_text |-> None,
     query_result |-> job.answer, job |-> j]

Create(j) ==
    /\ Known(j)
    /\ jobs[j].pc = "create"
    /\ nextId \in RecIds
    /\ records' = [records EXCEPT ![nextId] = NewRecord(jobs[j], j)]
    /\ nextId' = nextId + 1
    /\ jobs' = [jobs EXCEPT ![j] =
                  [@ EXCEPT !.pc = "return", !.aid = nextId, !.created = @ + 1,
                            !.short = NoText, !.normal = NoText, !.answer = NoText]]
    /\ Silent
    /\ UNCHANGED <<nextJob, inflight, cache>>

(* return analysis.id: the queue records the job as finished with it. *)
Returned(job) == [job EXCEPT !.pc = "finished", !.result = job.aid, !.aid = 0]

Return(j) ==
    /\ Known(j)
    /\ jobs[j].pc = "return"
    /\ jobs' = [jobs EXCEPT ![j] = Returned(@)]
    /\ Silent
    /\ UNCHANGED <<nextJob, inflight, records, nextId, cache>>

(* logger.error(...); return None: the job finishes with a null result. *)
Handler(j) ==
    /\ Known(j)
    /\ jobs[j].pc = "handler"
    /\ jobs' = [jobs EXCEPT ![j] = [@ EXCEPT !.pc = "finished", !.result = 0]]
    /\ Silent
    /\ UNCHANGED <<nextJob, inflight, records, nextId, cache>>

(* A queue that puts a job whose task timed out back on the queue. *)
TimedOutRequeued(job) ==
    [job EXCEPT !.pc = "queued", !.timedOut = TRUE, !.short = NoText,
                !.normal = NoText, !.answer = NoText, !.aid = 0]

(* job_timeout=600 runs out while the task executes Python code: the       *)
(* queue's timer raises its timeout exception, an Exception, inside the    *)
(* task.  Inside the try block the catch-all handler takes it; raised      *)
(* while the handler itself runs, it leaves the task and the queue records *)
(* the job as failed with the exception as exc_info.                       *)
TimedOut(job) ==
    IF job.pc \in TryStages
    THEN [Caught(job, job.raised) EXCEPT !.timedOut = TRUE]
    ELSE [job EXCEPT !.pc = "failed", !.exc_info = "JobTimeoutException",
                     !.timedOut = TRUE]

Timeout(j) ==
    /\ Known(j)
    /\ jobs[j].pc \in RunStages
    /\ ~jobs[j].hung
    /\ ~jobs[j].timedOut
    /\ jobs' = [jobs EXCEPT ![j] = TimedOut(@)]
    /\ Silent
    /\ UNCHANGED <<nextJob, inflight, records, nextId, cache>>

(* job_timeout=600 runs out while a generation call never returns control: *)
(* the worker kills the process executing the task and records the job as  *)
(* failed.                                                                 *)
HorseKilled(j) ==
    /\ Known(j)
    /\ jobs[j].hung
    /\ jobs' = [jobs EXCEPT ![j] =
                  [@ EXCEPT !.pc = "failed", !.hung = FALSE, !.timedOut = TRUE,
                            !.exc_info = "WorkHorseTerminated"]]
    /\ Silent
    /\ UNCHANGED <<nextJob, inflight, records, nextId, cache>>

(* The job leaves the queue's retention window: fetch_job no longer finds  *)
(* it.                                                                     *)
Expire(j) ==
    /\ Known(j)
    /\ jobs[j].pc \in {"finished", "failed"}
    /\ jobs' = [jobs EXCEPT ![j] = Expired]
    /\ Silent
    /\ UNCHANGED <<nextJob, inflight, records, nextId, cache>>

(* ---- check_job_status ------------------------------------------------- *)

Payload(rec) ==
    [image_url |-> rec.image, short_caption |-> rec.short_caption,
     normal_caption |-> rec.normal_caption, query_result |-> rec.query_result]

(* check_job_status without the test of job.is_finished. *)
StatusResponseUnfinished(j) ==
    IF ~Known(j)
    THEN Response("status", j, 404, "failed", "Job not found", NoBody)
    ELSE IF jobs[j].pc = "failed"
    THEN Response("status", j, 200, "failed", jobs[j].exc_info, NoBody)
    ELSE Response("status", j, 200, "processing", None, NoBody)

(* check_job_status without the test for a missing job. *)
StatusResponseNoneUnchecked(j) ==
    Response("status", j, 200, "processing", None, NoBody)

(* check_job_status that reports a finished job whose record is missing as *)
(* still in progress.                                                      *)
StatusResponseRecordPending(j) ==
    IF ~Known(j)
    THEN Response("status", j, 404, "failed", "Job not found", NoBody)
    ELSE IF jobs[j].pc = "failed"
    THEN Response("status", j, 200, "failed", jobs[j].exc_info, NoBody)
    ELSE IF jobs[j].pc = "finished" /\ jobs[j].result = 0
    THEN Response("status", j, 200, "failed", "Processing failed", NoBody)
    ELSE IF jobs[j].pc = "finished" /\ records[jobs[j].result] # NoRec
    THEN Response("status", j, 200, "completed", None,
                  Payload(records[jobs[j].result]))
    ELSE Response("status", j, 200, "processing", None, NoBody)

StatusResponse(j) ==
    IF ~Known(j)
    THEN Response("status", j, 404, "failed", "Job not found", NoBody)
    ELSE IF jobs[j].pc = "failed"
    THEN Response("status", j, 200, "failed", jobs[j].exc_info, NoBody)
    ELSE IF jobs[j].pc = "finished"
    THEN IF jobs[j].result = 0
         THEN Response("status", j, 200, "failed", "Processing failed", NoBody)
         ELSE IF records[jobs[j].result] # NoRec
         THEN Response("status", j, 200, "completed", None,
                       Payload(records[jobs[j].result]))
         ELSE Response("status", j, 200, "failed", "Analysis not found", NoBody)
    ELSE Response("status", j, 200, "processing", None, NoBody)

(* The view reads and answers; the only thing the step adds is the history *)
(* field seen of a job answered "completed" for the first time.            *)
CheckJobStatus(j) ==
    /\ resp' = StatusResponse(j)
    /\ jobs' = IF resp'.status = "completed" /\ jobs[j].seen = NoBody
               THEN [jobs EXCEPT ![j].seen = resp'.body]
               ELSE jobs
    /\ UNCHANGED <<nextJob, inflight, records, nextId, cache>>

(* ---- the analysis store's other writers ------------------------------- *)

(* analysis_delete(request, pk), POST: get_object_or_404 then delete(). *)
AnalysisDelete(pk) ==
    /\ pk \in RecIds
    /\ records[pk] # NoRec
    /\ records' = [records EXCEPT ![pk] = NoRec]
    /\ Silent
    /\ UNCHANGED <<jobs, nextJob, inflight, nextId, cache>>

(* An admin change form in which the captions are not read-only. *)
AdminChangedCaption(rec, img) ==
    [rec EXCEPT !.image = img, !.short_caption = NoText]

(* ImageAnalysisAdmin: image is the one field of a record that is not      *)
(* read-only in the admin change form.                                     *)
AdminChanged(rec, img) == [rec EXCEPT !.image = img]

AdminChangeImage(pk, img) ==
    /\ pk \in RecIds
    /\ records[pk] # NoRec
    /\ records[pk].image # img
    /\ records' = [records EXCEPT ![pk] = AdminChanged(@, img)]
    /\ Silent
    /\ UNCHANGED <<jobs, nextJob, inflight, nextId, cache>>

(* ---- get_model_prediction --------------------------------------------- *)

(* cache_key = f"image_analysis_{hash(image.tobytes())}": the hash of a    *)
(* bytes object is keyed by the hash seed of the interpreter process, which *)
(* is drawn at process start; seed is the seed of the calling process.      *)
CacheKey(seed, img) == <<seed, img>>

(* cache.set(cache_key, result, timeout=3600) *)
CacheEntry(result) == [value |-> result, timeout |-> CacheTTL]

(* result = cache.get(cache_key); on None: process_query(image), then      *)
(* cache.set(cache_key, result, timeout=3600); return result.  A raising   *)
(* model call leaves the helper with the cache as it was.  No view and no  *)
(* task calls this helper.  The response records the call: status "hit" or *)
(* "miss" (the model was invoked), the image and the value returned.       *)
Predicted(img, status, error, result) ==
    Response("predict", 0, 0, status, error,
             [image_url |-> img, query_result |-> result])

GetModelPrediction(seed, img) ==
    LET key == CacheKey(seed, img)
        result == Generate("query", img, DefaultQuery)
    IN  /\ IF cache[key] # NoEntry
           THEN /\ resp' = Predicted(img, "hit", None, cache[key].value)
                /\ cache' = cache
           ELSE \E raises \in BOOLEAN :
                  IF raises
                  THEN /\ resp' = Predicted(img, "miss", "InferenceError", NoText)
                       /\ cache' = cache
                  ELSE /\ resp' = Predicted(img, "miss", None, result)
                       /\ cache' = [cache EXCEPT ![key] = CacheEntry(result)]
        /\ UNCHANGED <<jobs, nextJob, inflight, records, nextId>>

(* The entry's timeout of 3600 s runs out. *)
CacheExpire(key) ==
    /\ cache[key] # NoEntry
    /\ cache' = [cache EXCEPT ![key] = NoEntry]
    /\ Silent
    /\ UNCHANGED <<jobs, nextJob, inflight, records, nextId>>

(* ---- specification ---------------------------------------------------- *)

(* The steps of process_image_task once a worker has taken the job. *)
TaskStep(j) ==
    \/ Start(j)
    \/ GenerateShortCaption(j)
    \/ GenerateNormalCaption(j)
    \/ ProcessQuery(j)
    \/ Create(j)
    \/ Return(j)
    \/ Handler(j)

WorkerStep(j) ==
    \/ Dequeue(j)
    \/ TaskStep(j)

(* The requests, the queue's timer and retention and the store's writers. *)
Rest ==
    \/ ProcessImageNoFile
    \/ Respond
    \/ \E j \in JobIds : Timeout(j)
    \/ \E j \in JobIds : HorseKilled(j)
    \/ \E j \in JobIds : Expire(j)
    \/ \E j \in JobIds : CheckJobStatus(j)
    \/ \E pk \in RecIds : AnalysisDelete(pk)
    \/ \E pk \in RecIds, img \in Images : AdminChangeImage(pk, img)

Others ==
    \/ \E j \in JobIds : WorkerStep(j)
    \/ Rest

Next ==
    \/ \E f \in Uploads, q \in Queries : Enqueue(f, q)
    \/ Others

(* The pipeline: submissions, workers, the queue's timer and retention,    *)
(* status polls and the analysis store's writers.                          *)
Spec == Init /\ [][Next]_vars

(* The pipeline with one submission more than Spec: the case of an upload  *)
(* submitted again.                                                        *)
ResubmitNext ==
    \/ \E f \in Uploads, q \in Queries : Resubmit(f, q)
    \/ Others

ResubmitSpec == Init /\ [][ResubmitNext]_vars

(* A worker process that takes the next job while the task of another is   *)
(* still executing in it.                                                  *)
WorkerIdleAlways == TRUE

(* One worker process executes one job at a time: it takes the next job    *)
(* only once the task of the job it took before has returned, raised or    *)
(* been killed.                                                            *)
WorkerIdle == \A i \in JobIds : jobs[i].pc \notin RunStages

(* The queue hands out its jobs in the order they were enqueued. *)
NextInLine(j) == \A i \in JobIds : jobs[i].pc = "queued" => j <= i

(* The pipeline served by one worker process, hence by one Model Handle    *)
(* instance (ModelHandler.get_instance() is a singleton of the process),   *)
(* with one submission more than Spec.  Status polls and the analysis      *)
(* store's other writers change no job's position and are not part of it.  *)
OneWorkerNext ==
    \/ \E f \in Uploads, q \in Queries : Resubmit(f, q)
    \/ \E j \in JobIds : WorkerIdle /\ NextInLine(j) /\ Dequeue(j)
    \/ \E j \in JobIds : TaskStep(j)
    \/ ProcessImageNoFile
    \/ Respond
    \/ \E j \in JobIds : Timeout(j)
    \/ \E j \in JobIds : HorseKilled(j)
    \/ \E j \in JobIds : Expire(j)

OneWorkerSpec == Init /\ [][OneWorkerNext]_vars

(* The pipeline together with calls of the cached helper made by the       *)
(* processes of the deployment.                                            *)
CacheNext ==
    \/ Next
    \/ \E seed \in HashSeeds, img \in Images : GetModelPrediction(seed, img)
    \/ \E key \in CacheKeys : CacheExpire(key)

CacheSpec == Init /\ [][CacheNext]_vars

(* A worker that is given a job keeps executing it, the queue's timer      *)
(* fires on a call that never returns, a request once received is          *)
(* answered, and the client keeps polling each job id.                     *)
Fairness ==
    /\ \A j \in SpecJobIds : WF_vars(WorkerStep(j))
    /\ \A j \in SpecJobIds : WF_vars(HorseKilled(j))
    /\ \A j \in SpecJobIds : WF_vars(CheckJobStatus(j))
    /\ WF_vars(Respond)

(* The steps that bear on a submitted job, its record or the answer to a   *)
(* poll of it.  A request without a file and a poll of an id no submission *)
(* was given leave jobs and records as they are and are not among them.    *)
LiveNext ==
    \/ \E f \in Uploads, q \in Queries : Enqueue(f, q)
    \/ Respond
    \/ \E j \in JobIds : WorkerStep(j)
    \/ \E j \in JobIds : Timeout(j)
    \/ \E j \in JobIds : HorseKilled(j)
    \/ \E j \in JobIds : Expire(j)
    \/ \E j \in SpecJobIds : CheckJobStatus(j)
    \/ \E pk \in RecIds : AnalysisDelete(pk)
    \/ \E pk \in RecIds, img \in Images : AdminChangeImage(pk, img)

LiveSpec == Init /\ [][LiveNext]_vars /\ Fairness

(* ======================================================================= *)
(* Properties                                                              *)
(* ======================================================================= *)

(* ---- C1 ---------------------------------------------------------------- *)

C1_EnqueueStep ==
    (inflight' # inflight /\ inflight' # 0) =>
        /\ inflight = 0
        /\ jobs[inflight'].pc = "absent"
        /\ jobs'[inflight'].pc = "queued"
        /\ jobs'[inflight'].timeout = JobTimeout
        /\ jobs'[inflight'].calls = 0
        /\ \A j \in JobIds \ {inflight'} : jobs'[j] = jobs[j]
        /\ resp' = NoResp

C1_ResponseStep ==
    (resp'.op = "submit" /\ resp'.http = 200) =>
        /\ inflight # 0
        /\ resp'.job = inflight
        /\ resp'.status = "processing"
        /\ jobs' = jobs

C1_CallStep ==
    \A j \in JobIds :
        jobs'[j].calls > jobs[j].calls =>
            /\ Known(j)
            /\ jobs[j].pc \in CallStages
            /\ jobs'[j].calls = jobs[j].calls + 1
            /\ resp' = NoResp
            /\ inflight' = inflight

C2_OnlyImagesEnqueued ==
    /\ \A j \in JobIds : Known(j) => jobs[j].file \in Images
    /\ (resp.op = "submit" /\ resp.http = 200 /\ Known(resp.job))
          => jobs[resp.job].file \in Images

(* ---- C3 ---------------------------------------------------------------- *)

(* C3: for every job a submission put on the queue, with workers scheduled *)
(* fairly and the job polled again and again, a poll is eventually         *)
(* answered "completed" or "failed", whether the inference succeeds,       *)
(* raises or exceeds the timeout.                                          *)
C3_PollingReachesTerminal ==
    \A j \in SpecJobIds :
        (jobs[j].pc = "queued") ~>
            (resp.op = "status" /\ resp.job = j
                /\ resp.status \in {"completed", "failed"})

(* A poll answered "failed" for a job that exceeded its timeout. *)
C3_Witness ==
    /\ resp.op = "status"
    /\ Known(resp.job)
    /\ resp.status = "failed"
    /\ jobs[resp.job].timedOut

(* ---- C4 ---------------------------------------------------------------- *)

(* C4: check_job_status for a job id the queue does not know (never        *)
(* issued, or expired) answers 404 with status "failed" and error          *)
(* "Job not found", and the step changes no job, record or cache entry.    *)
C4_UnknownJobStep ==
    (resp'.op = "status" /\ ~Known(resp'.job)) =>
        /\ resp'.http = 404
        /\ resp'.status = "failed"
        /\ resp'.error = "Job not found"
        /\ UNCHANGED <<jobs, nextJob, inflight, records, nextId, cache>>

C4_UnknownJobNotFound == [][C4_UnknownJobStep]_vars

(* A poll for a job that has expired from the queue. *)
C4_Witness ==
    /\ resp.op = "status"
    /\ resp.http = 404
    /\ jobs[resp.job].pc = "expired"

(* ---- C5 ---------------------------------------------------------------- *)

TimeoutErrors == {"JobTimeoutException"}

(* C6: a poll for a job whose execution exceeded its timeout, once the     *)
(* queue has recorded the job's outcome, is answered "failed" with an      *)
(* error that identifies the timeout.                                      *)
C6_TimeoutReported ==
    (/\ resp.op = "status"
     /\ Known(resp.job)
     /\ jobs[resp.job].timedOut
     /\ jobs[resp.job].pc \in {"finished", "failed"}) =>
        /\ resp.status = "failed"
        /\ resp.error \in TimeoutErrors

(* ---- C7 ---------------------------------------------------------------- *)

(* C7: when a generation call raised inside the task, the exception does   *)
(* not leave the task (the job is not recorded as failed by the queue) and *)
(* a poll of the finished job is answered "failed" with the message of the *)
(* exception as its error.                                                 *)
C7_OriginalMessageReported ==
    (/\ resp.op = "status"
     /\ Known(resp.job)
     /\ jobs[resp.job].raised = "InferenceError"
     /\ ~jobs[resp.job].timedOut
     /\ jobs[resp.job].pc \in {"finished", "failed"}) =>
        /\ jobs[resp.job].pc = "finished"
        /\ resp.status = "failed"
        /\ resp.error = jobs[resp.job].raised

(* ---- C8 ---------------------------------------------------------------- *)

(* C8: a job taken by a worker after another job of byte-identical content *)
(* had completed makes no generation call, and when it completes its       *)
(* record carries the captions and query result of the earlier one.        *)
C8_RepeatMakesNoCall ==
    \A j \in JobIds :
        (Known(j) /\ jobs[j].repeat) =>
            /\ jobs[j].calls = 0
            /\ \A i \in JobIds \ {j} :
                 (/\ Succeeded(i) /\ Succeeded(j)
                  /\ jobs[i].file = jobs[j].file
                  /\ records[jobs[i].result] # NoRec
                  /\ records[jobs[j].result] # NoRec) =>
                    LET a == records[jobs[i].result]
                        b == records[jobs[j].result]
                    IN  /\ a.short_caption = b.short_caption
                        /\ a.normal_caption = b.normal_caption
                        /\ a.query_result = b.query_result

(* ---- C9 ---------------------------------------------------------------- *)

RecordsOf(j) == {r \in RecIds : records[r] # NoRec /\ records[r].job = j}

(* C9: in every reachable state at most one AnalysisRecord has been        *)
(* created for any one job, and at most one record of the store comes from *)
(* it.                                                                     *)
C9_AtMostOneRecordPerJob ==
    \A j \in JobIds :
        /\ jobs[j].created <= 1
        /\ Cardinality(RecordsOf(j)) <= 1

(* A job that created its record and then ran into its timeout. *)
C9_Witness ==
    \E j \in JobIds :
        /\ jobs[j].created = 1
        /\ jobs[j].timedOut
        /\ jobs[j].pc = "finished"
        /\ RecordsOf(j) # {}

(* ---- C10 --------------------------------------------------------------- *)

(* C10: the query answered for a job is the query text of its submission:  *)
(* the record of a job submitted without query text has no query result,   *)
(* and the record of a job submitted with query text q has q as its        *)
(* query_text, process_query having been asked q.                          *)
C10_QueryOfSubmissionAnswered ==
    \A r \in RecIds :
        (records[r] # NoRec /\ Known(records[r].job)) =>
            LET job == jobs[records[r].job]
            IN  IF job.query_text = ""
                THEN records[r].query_result = NoText
                ELSE /\ job.asked = job.query_text
                     /\ records[r].query_text = job.query_text

(* ---- C11 --------------------------------------------------------------- *)

(* The task of job j is at a generation call of the Model Handle: the call *)
(* has been or is about to be entered and has not returned.                *)
InCall(j) == Known(j) /\ jobs[j].pc \in CallStages

EntriesOf(img) == {k \in CacheKeys : k[2] = img /\ cache[k] # NoEntry}

(* C12: a call of get_model_prediction invokes the Model Handle if and     *)
(* only if the cache holds no unexpired entry for the image's content; on  *)
(* a miss whose model call returns, the result is stored for that content  *)
(* with a timeout of 3600 s; a call made while an entry is held changes    *)
(* nothing and returns the value stored.                                   *)
C12_Step ==
    (resp'.op = "predict") =>
        LET img == resp'.body.image_url
        IN  /\ (resp'.status = "miss") <=> (EntriesOf(img) = {})
            /\ (resp'.status = "miss" /\ resp'.error = None) =>
                  \E k \in CacheKeys :
                     /\ k[2] = img
                     /\ cache'[k] = [value |-> resp'.body.query_result,
                                     timeout |-> 3600]
                     /\ \A o \in CacheKeys \ {k} : cache'[o] = cache[o]
            /\ (resp'.status = "hit") =>
                  /\ cache' = cache
                  /\ \A k \in EntriesOf(img) :
                        resp'.body.query_result = cache[k].value

C12_SecondCallHits == [][C12_Step]_vars

(* ---- C13 --------------------------------------------------------------- *)

(* C13: a poll is answered "completed" only for a job the queue holds as   *)
(* finished, not failed, whose result is the id of a record its own task   *)
(* created and that exists at the time of the poll, and the captions and   *)
(* query result answered are that record's; a finished job whose result is *)
(* null or whose record is missing is answered "failed".                   *)
C13_CompletedOnlyWithRecord ==
    (resp.op = "status") =>
        LET j == resp.job
        IN  /\ (resp.status = "completed") =>
                  /\ Known(j)
                  /\ jobs[j].pc = "finished"
                  /\ jobs[j].result \in RecIds
                  /\ jobs[j].created = 1
                  /\ records[jobs[j].result] # NoRec
                  /\ records[jobs[j].result].job = j
                  /\ resp.body.short_caption = records[jobs[j].result].short_caption
                  /\ resp.body.normal_caption = records[jobs[j].result].normal_caption
                  /\ resp.body.query_result = records[jobs[j].result].query_result
            /\ (/\ Known(j)
                /\ jobs[j].pc = "finished"
                /\ (jobs[j].result = 0 \/ records[jobs[j].result] = NoRec)) =>
                  resp.status = "failed"

(* A poll of a finished job that returned an analysis id and whose record  *)
(* has since been deleted, answered "failed".                              *)
C13_Witness ==
    /\ resp.op = "status"
    /\ resp.status = "failed"
    /\ Known(resp.job)
    /\ jobs[resp.job].pc = "finished"
    /\ jobs[resp.job].result # 0
    /\ records[jobs[resp.job].result] = NoRec
====
